---- MODULE Spec2Model ----
(***************************************************************************)
(* Model of src/app/demo/page.tsx: the WasteAnalyzerPage component, its    *)
(* page state (useState hooks), the two event handlers handleFileChange    *)
(* and handleAnalyze, and the asynchronous continuations of handleAnalyze  *)
(* (FileReader onloadend, fetch settling, backoff timer, response.json()). *)
(*                                                                         *)
(* Every handler and every continuation between two awaits runs to         *)
(* completion on the event loop, and React commits the state updates of a  *)
(* handler before the next event is dispatched, so each is one action.     *)
(* Strings built by template literals are sequences of their parts.        *)
(***************************************************************************)
EXTENDS Integers, Sequences, FiniteSets, TLC

VARIABLES imageFile, imagePreview, analysisResult, isLoading, error, calls, event

vars == <<imageFile, imagePreview, analysisResult, isLoading, error, calls, event>>

-----------------------------------------------------------------------------
(* Bounds of the model *)

\* number of handleAnalyze invocations that may be active at the same time
MaxActive == 2

\* number of fetch calls one invocation may issue before the model stops it
MaxFetches == 5

-----------------------------------------------------------------------------
(* Values *)

Null == "null"

\* the images the user can pick in the file dialog
Files == {"A", "B"}

\* analysisResult === null
NullResult == [image |-> Null, data |-> Null]

\* `let response` before any fetch has resolved
NoResponse == [status |-> 0, kind |-> "undefined", image |-> Null]

\* a fetch that rejects (network failure)
Rejected == [status |-> 0, kind |-> "rejected", image |-> Null]

\* bodies a 2xx response can carry
BodyKinds == {"notJson", "noCandidates", "emptyText", "garbageText", "nullText", "objectText"}

ErrorStatuses == {404, 429, 500}

\* what one fetch of the payload built from image f can settle with
FetchOutcomes(f) ==
    {Rejected}
      \cup {[status |-> 200, kind |-> k, image |-> f] : k \in BodyKinds}
      \cup {[status |-> s, kind |-> "errorBody", image |-> f] : s \in ErrorStatuses}

\* URL.createObjectURL(file)
CreateObjectURL(f) ==
    CASE f = "A" -> "blob:A"
      [] f = "B" -> "blob:B"
      [] OTHER -> "blob:?"

\* response.ok
ResponseOk(r) == r.status >= 200 /\ r.status <= 299

StatusStr(s) ==
    CASE s = 200 -> "200"
      [] s = 404 -> "404"
      [] s = 429 -> "429"
      [] s = 500 -> "500"
      [] OTHER -> "0"

\* response.statusText
StatusText(s) ==
    CASE s = 200 -> "OK"
      [] s = 404 -> "Not Found"
      [] s = 429 -> "Too Many Requests"
      [] s = 500 -> "Internal Server Error"
      [] OTHER -> ""

\* response.status === 429 || response.status >= 500
RetryableStatus(s) == s = 429 \/ s >= 500

\* await response.json() resolves
BodyIsJson(r) == r.kind # "notJson"

\* result.candidates?.[0]?.content?.parts?.[0]?.text, "" when absent or empty
CandidateText(r) ==
    CASE r.kind = "garbageText" -> "<html>"
      [] r.kind = "nullText" -> "null"
      [] r.kind = "objectText" -> "{...}"
      [] OTHER -> ""

\* JSON.parse(jsonText) does not throw
JSONParses(text) == text \in {"null", "{...}"}

\* JSON.parse(jsonText); the object is the dashboard generated for the image
\* that was sent in the request
JSONParse(text, r) ==
    IF text = "{...}" THEN [image |-> r.image, data |-> "dashboard"] ELSE NullResult

(* Error messages *)

PleaseUpload == <<"Please upload an image first.">>

APIErrorMessage(r) == <<"APIError: ", StatusStr(r.status), " ", StatusText(r.status)>>

AfterRetriesMessage(r) == <<"Failed to analyze image after retries: ", StatusText(r.status)>>

InvalidStructureMessage == <<"Invalid response structure from API.">>

FetchRejectMessage == <<"Failed to fetch">>

SyntaxErrorMessage == <<"Unexpected token">>

\* `Failed to analyze image. ${err.message}. Please try again.`
CatchMessage(msg) == <<"Failed to analyze image. ">> \o msg \o <<". Please try again.">>

-----------------------------------------------------------------------------
(* Retry loop parameters *)

InitialRetries == 3

InitialDelay == 1000

\* delay += 1000: linear instead of exponential backoff
NextDelayLinear(d) == d + 1000

\* delay *= 2
NextDelay(d) == d * 2

\* the retries-- statement left out
NextRetriesKept(r) == r

\* retries--
NextRetries(r) == r - 1

\* while (retries > 0)
LoopContinues(r) == r > 0

\* if (retries === 1) throw err
IsLastRetry(r) == r = 1

-----------------------------------------------------------------------------
(* Page *)

\* disabled={!imageFile}: the isLoading test left out
ButtonDisabledNoLoading == imageFile = Null

\* disabled={isLoading || !imageFile}
ButtonDisabled == isLoading \/ imageFile = Null

Active(c) == c.pc # "done"

ActiveCalls == SelectSeq(calls, Active)

Init ==
    /\ imageFile = Null
    /\ imagePreview = ""
    /\ analysisResult = NullResult
    /\ isLoading = FALSE
    /\ error = <<>>
    /\ calls = <<>>
    /\ event = [name |-> "mount", arg |-> Null]

\* handleFileChange without setAnalysisResult(null)
handleFileChangeKeepsResult(f) ==
    /\ event' = [name |-> "handleFileChange", arg |-> f]
    /\ IF f # Null
         THEN /\ imageFile' = f
              /\ imagePreview' = CreateObjectURL(f)
              /\ error' = <<>>
              /\ UNCHANGED analysisResult
         ELSE UNCHANGED <<imageFile, imagePreview, analysisResult, error>>
    /\ UNCHANGED <<isLoading, calls>>

handleFileChange(f) ==
    /\ event' = [name |-> "handleFileChange", arg |-> f]
    /\ IF f # Null
         THEN /\ imageFile' = f
              /\ imagePreview' = CreateObjectURL(f)
              /\ analysisResult' = NullResult
              /\ error' = <<>>
         ELSE UNCHANGED <<imageFile, imagePreview, analysisResult, error>>
    /\ UNCHANGED <<isLoading, calls>>

\* the user picks a file in the dialog, or cancels it
FileDialog == \E f \in Files \cup {Null} : handleFileChange(f)

\* the locals of one handleAnalyze invocation, suspended in fileToGenerativePart;
\* fetches, outcomes and waits record what the invocation has done so far
NewCall(f) ==
    [pc |-> "reading", file |-> f, retries |-> 0, delay |-> 0,
     response |-> NoResponse, fetches |-> 0, outcomes |-> <<>>, waits |-> <<>>,
     end |-> "", message |-> <<>>]

\* handleAnalyze with the return after the missing-image message left out
handleAnalyzeNoReturn ==
    /\ event' = [name |-> "handleAnalyze", arg |-> imageFile]
    /\ Len(ActiveCalls) < MaxActive
    /\ isLoading' = TRUE
    /\ error' = <<>>
    /\ analysisResult' = NullResult
    /\ calls' = Append(ActiveCalls, NewCall(imageFile))
    /\ UNCHANGED <<imageFile, imagePreview>>

\* handleAnalyze without setAnalysisResult(null) at its start
handleAnalyzeKeepsResult ==
    /\ event' = [name |-> "handleAnalyze", arg |-> imageFile]
    /\ IF imageFile = Null
         THEN /\ error' = PleaseUpload
              /\ UNCHANGED <<imageFile, imagePreview, analysisResult, isLoading, calls>>
         ELSE /\ Len(ActiveCalls) < MaxActive
              /\ isLoading' = TRUE
              /\ error' = <<>>
              /\ calls' = Append(ActiveCalls, NewCall(imageFile))
              /\ UNCHANGED <<imageFile, imagePreview, analysisResult>>

\* handleAnalyze up to its first await
handleAnalyze ==
    /\ event' = [name |-> "handleAnalyze", arg |-> imageFile]
    /\ IF imageFile = Null
         THEN /\ error' = PleaseUpload
              /\ UNCHANGED <<imageFile, imagePreview, analysisResult, isLoading, calls>>
         ELSE /\ Len(ActiveCalls) < MaxActive
              /\ isLoading' = TRUE
              /\ error' = <<>>
              /\ analysisResult' = NullResult
              /\ calls' = Append(ActiveCalls, NewCall(imageFile))
              /\ UNCHANGED <<imageFile, imagePreview>>

\* onClick of the Analyze button
ClickAnalyze ==
    /\ ~ButtonDisabled
    /\ handleAnalyze

\* handleAnalyze called as a function, whatever the button shows
CallAnalyze ==
    /\ Len(ActiveCalls) = 0
    /\ handleAnalyze

-----------------------------------------------------------------------------
(* Continuations of handleAnalyze *)

PageUnchanged == UNCHANGED <<imageFile, imagePreview, analysisResult, isLoading, error>>

\* the outer catch without the finally clause
OuterCatchNoFinally(i, c, msg) ==
    /\ calls' = [calls EXCEPT ![i] = [c EXCEPT !.pc = "done", !.end = "failure", !.message = msg]]
    /\ error' = CatchMessage(msg)
    /\ UNCHANGED <<imageFile, imagePreview, analysisResult, isLoading>>

\* catch (err) { setError(...) } finally { setIsLoading(false) }
OuterCatch(i, c, msg) ==
    /\ calls' = [calls EXCEPT ![i] = [c EXCEPT !.pc = "done", !.end = "failure", !.message = msg]]
    /\ error' = CatchMessage(msg)
    /\ isLoading' = FALSE
    /\ UNCHANGED <<imageFile, imagePreview, analysisResult>>

\* the success path without setAnalysisResult(parsedJson)
SuccessNoResult(i, c, parsedJson) ==
    /\ calls' = [calls EXCEPT ![i] = [c EXCEPT !.pc = "done", !.end = "success"]]
    /\ isLoading' = FALSE
    /\ UNCHANGED <<imageFile, imagePreview, analysisResult, error>>

\* setAnalysisResult(parsedJson) ... finally { setIsLoading(false) }
Success(i, c, parsedJson) ==
    /\ calls' = [calls EXCEPT ![i] = [c EXCEPT !.pc = "done", !.end = "success"]]
    /\ analysisResult' = parsedJson
    /\ isLoading' = FALSE
    /\ UNCHANGED <<imageFile, imagePreview, error>>

\* response = await fetch(apiUrl, ...): the request is sent
IssueFetch(i, c) ==
    /\ c.fetches < MaxFetches
    /\ calls' = [calls EXCEPT ![i] = [c EXCEPT !.pc = "fetching", !.fetches = @ + 1]]
    /\ PageUnchanged

\* the code after the while loop, up to await response.json()
AfterLoop(i, c) ==
    IF c.response = NoResponse
      THEN OuterCatch(i, c, <<"Cannot read properties of undefined (reading 'ok')">>)
      ELSE IF ~ResponseOk(c.response)
             THEN OuterCatch(i, c, AfterRetriesMessage(c.response))
             ELSE /\ calls' = [calls EXCEPT ![i] = [c EXCEPT !.pc = "json"]]
                  /\ PageUnchanged

\* the test of the while loop
LoopTest(i, c) ==
    IF LoopContinues(c.retries) THEN IssueFetch(i, c) ELSE AfterLoop(i, c)

\* await new Promise((resolve) => setTimeout(resolve, delay))
Wait(i, c, branch) ==
    /\ calls' = [calls EXCEPT ![i] =
                    [c EXCEPT !.pc = "waiting",
                              !.waits = Append(@, [ms |-> c.delay, branch |-> branch])]]
    /\ PageUnchanged

\* the catch clause of the retry loop
InnerCatch(i, c, msg) ==
    IF IsLastRetry(c.retries) THEN OuterCatch(i, c, msg) ELSE Wait(i, c, "catch")

\* the branches on a resolved response with the break on response.ok left out
OnResponseNoBreak(i, c, r) ==
    IF RetryableStatus(r.status)
      THEN Wait(i, c, "status")
      ELSE InnerCatch(i, c, APIErrorMessage(r))

\* the branches on a resolved response inside the try of the retry loop
OnResponse(i, c, r) ==
    IF ResponseOk(r)
      THEN AfterLoop(i, c)
      ELSE IF RetryableStatus(r.status)
             THEN Wait(i, c, "status")
             ELSE InnerCatch(i, c, APIErrorMessage(r))

\* reader.onloadend fires; with a data URL the promise resolves and the
\* invocation enters the retry loop, with reader.result null the callback
\* throws and the promise is never resolved
ReaderLoadEnd(i, loaded) ==
    /\ calls[i].pc = "reading"
    /\ event' = [name |-> "onloadend", arg |-> Null]
    /\ IF loaded
         THEN LoopTest(i, [calls[i] EXCEPT !.retries = InitialRetries, !.delay = InitialDelay])
         ELSE /\ calls' = [calls EXCEPT ![i].pc = "hung"]
              /\ PageUnchanged

\* the pending fetch resolves with a response or rejects
FetchSettles(i, o) ==
    /\ calls[i].pc = "fetching"
    /\ event' = [name |-> "fetchSettled", arg |-> Null]
    /\ LET c == [calls[i] EXCEPT !.outcomes = Append(@, o)]
       IN IF o = Rejected
            THEN InnerCatch(i, c, FetchRejectMessage)
            ELSE OnResponse(i, [c EXCEPT !.response = o], o)

\* the backoff timer fires: delay *= 2; retries--; back to the loop test
TimerFires(i) ==
    /\ calls[i].pc = "waiting"
    /\ event' = [name |-> "timeout", arg |-> Null]
    /\ LoopTest(i, [calls[i] EXCEPT !.delay = NextDelay(@), !.retries = NextRetries(@)])

\* response.json() settles and the candidate text is parsed
JsonSettles(i) ==
    /\ calls[i].pc = "json"
    /\ event' = [name |-> "jsonSettled", arg |-> Null]
    /\ LET c == calls[i]
           r == c.response
           jsonText == CandidateText(r)
       IN IF ~BodyIsJson(r)
            THEN OuterCatch(i, c, SyntaxErrorMessage)
            ELSE IF jsonText # ""
                   THEN IF JSONParses(jsonText)
                          THEN Success(i, c, JSONParse(jsonText, r))
                          ELSE OuterCatch(i, c, SyntaxErrorMessage)
                   ELSE OuterCatch(i, c, InvalidStructureMessage)

-----------------------------------------------------------------------------
(* Specifications *)

\* the FileReader of some invocation fires onloadend, with a data URL or
\* with a null result after a read error
ReaderDone == \E i \in 1..Len(calls) : \E loaded \in BOOLEAN : ReaderLoadEnd(i, loaded)

\* the pending fetch of some invocation resolves or rejects
FetchDone == \E i \in 1..Len(calls) : \E o \in FetchOutcomes(calls[i].file) : FetchSettles(i, o)

\* the backoff timer of some invocation fires
TimerDone == \E i \in 1..Len(calls) : TimerFires(i)

\* the body read of some invocation settles
JsonDone == \E i \in 1..Len(calls) : JsonSettles(i)

Next ==
    \/ FileDialog
    \/ ClickAnalyze
    \/ ReaderDone
    \/ FetchDone
    \/ TimerDone
    \/ JsonDone

Spec == Init /\ [][Next]_vars

\* the browser settles every pending read, fetch, timer and body read; the
\* user is not obliged to do anything
Fairness ==
    /\ WF_vars(ReaderDone)
    /\ WF_vars(FetchDone)
    /\ WF_vars(TimerDone)
    /\ WF_vars(JsonDone)

SpecFair == Init /\ [][Next]_vars /\ Fairness

\* the page, with handleAnalyze also called directly as a function
NextCall == Next \/ CallAnalyze

SpecCall == Init /\ [][NextCall]_vars

TypeOK ==
    /\ imageFile \in Files \cup {Null}
    /\ isLoading \in BOOLEAN
    /\ Len(calls) <= MaxActive

-----------------------------------------------------------------------------
(* Properties *)

Is2xx(o) == o # Rejected /\ o.status >= 200 /\ o.status <= 299

IsRetryable(o) == o # Rejected /\ (o.status = 429 \/ o.status >= 500)

IsClientError(o) == o # Rejected /\ ~Is2xx(o) /\ ~IsRetryable(o)

\* the step in which invocation i leaves handleAnalyze
Ends(i) == i <= Len(calls) /\ calls[i].pc # "done" /\ calls'[i].pc = "done"

\* C1: one invocation of handleAnalyze issues at most 3 fetch calls,
\* whatever the outcomes of the attempts are.
C1_AtMostThreeFetches ==
    \A i \in 1..Len(calls) : calls[i].fetches <= 3

\* a third fetch was issued after a rejected and a non-2xx attempt
C1_Witness ==
    \E i \in 1..Len(calls) :
        /\ calls[i].fetches = 3
        /\ Len(calls[i].outcomes) = 3
        /\ calls[i].outcomes[1] = Rejected
        /\ IsRetryable(calls[i].outcomes[2])
        /\ calls[i].pc = "done"

C3_FailureSurfaced ==
    [][\A i \in 1..Len(calls') :
          Ends(i) /\ calls'[i].end = "failure" /\ calls'[i].file # Null
            => /\ error' # <<>>
               /\ analysisResult' = NullResult
               /\ isLoading' = FALSE]_vars

\* an invocation has just failed after three rejected fetches
C3_Witness ==
    \E i \in 1..Len(calls) :
        /\ calls[i].pc = "done"
        /\ calls[i].end = "failure"
        /\ calls[i].outcomes = <<Rejected, Rejected, Rejected>>
        /\ event.name = "fetchSettled"
        /\ error = CatchMessage(FetchRejectMessage)

\* C4: at most one invocation of handleAnalyze is active and at most one
\* fetch is in flight, and the Analyze button is disabled for as long as an
\* invocation is active (isLoading true).
C4_OneInvocationAtATime ==
    /\ Len(ActiveCalls) <= 1
    /\ Cardinality({i \in 1..Len(calls) : calls[i].pc = "fetching"}) <= 1
    /\ Len(ActiveCalls) = 1 => isLoading
    /\ isLoading => ButtonDisabled

\* the user picked a file while a fetch was in flight
C4_Witness ==
    /\ \E i \in 1..Len(calls) : calls[i].pc = "fetching" /\ calls[i].file # imageFile
    /\ event.name = "handleFileChange"
    /\ ButtonDisabled

\* C5: without an image the Analyze button is disabled, and handleAnalyze
\* invoked with imageFile null issues no fetch, leaves isLoading false and
\* analysisResult unchanged and sets error to 'Please upload an image first.'.
C5_NoAnalysisWithoutImage ==
    /\ [](imageFile = Null => ButtonDisabled)
    /\ [][event'.name = "handleAnalyze" /\ imageFile = Null
            => /\ calls' = calls
               /\ isLoading = FALSE /\ isLoading' = FALSE
               /\ analysisResult' = analysisResult
               /\ error' = PleaseUpload
               /\ UNCHANGED <<imageFile, imagePreview>>]_vars

\* handleAnalyze has run without an image
C5_Witness ==
    /\ event = [name |-> "handleAnalyze", arg |-> Null]
    /\ imageFile = Null
    /\ error = PleaseUpload
    /\ calls = <<>>

RECURSIVE Pow2(_)
Pow2(n) == IF n = 0 THEN 1 ELSE 2 * Pow2(n - 1)

\* C6: the k-th backoff wait of an invocation (k = 1, 2, 3) lasts exactly
\* 1000 * 2^(k-1) milliseconds, whichever branch performs it.
C6_DelayDoubles ==
    \A i \in 1..Len(calls) :
        /\ Len(calls[i].waits) <= 3
        /\ \A k \in 1..Len(calls[i].waits) : calls[i].waits[k].ms = 1000 * Pow2(k - 1)

\* three waits were performed, by the catch clause and by the 429/5xx branch
C6_Witness ==
    \E i \in 1..Len(calls) :
        /\ Len(calls[i].waits) = 3
        /\ calls[i].waits[1].branch = "catch"
        /\ calls[i].waits[2].branch = "status"
        /\ calls[i].waits[3] = [ms |-> 4000, branch |-> "status"]

\* C7: handleFileChange with a chosen file sets imageFile and imagePreview to
\* that file and resets analysisResult to null and error to the empty string;
\* with no file chosen it leaves imageFile, imagePreview, analysisResult,
\* error and isLoading unchanged.
C7_FileChangeEffect ==
    [][event'.name = "handleFileChange"
         => IF event'.arg # Null
              THEN /\ imageFile' = event'.arg
                   /\ imagePreview' = CreateObjectURL(event'.arg)
                   /\ analysisResult' = NullResult
                   /\ error' = <<>>
                   /\ isLoading' = isLoading
              ELSE UNCHANGED <<imageFile, imagePreview, analysisResult, error, isLoading>>]_vars

\* a file was chosen after an analysis had delivered a result, and the result
\* is gone
C7_Witness ==
    /\ event.name = "handleFileChange"
    /\ event.arg = "B"
    /\ imageFile = "B"
    /\ imagePreview = "blob:B"
    /\ analysisResult = NullResult
    /\ \E i \in 1..Len(calls) :
          /\ calls[i].pc = "done"
          /\ calls[i].end = "success"
          /\ calls[i].response.kind = "objectText"

\* C8: once an attempt returns a 2xx response whose candidate text is a valid
\* JSON object, no further fetch is issued, and the invocation ends with
\* analysisResult equal to the parsed object, error empty and isLoading false.
C8_SuccessDelivered ==
    /\ [](\A i \in 1..Len(calls) :
            \A k \in 1..Len(calls[i].outcomes) :
                Is2xx(calls[i].outcomes[k]) /\ calls[i].outcomes[k].kind = "objectText"
                  => /\ calls[i].fetches = k
                     /\ calls[i].pc \in {"json", "done"}
                     /\ calls[i].pc = "done" => calls[i].end = "success")
    /\ [][\A i \in 1..Len(calls') :
            Ends(i) /\ calls[i].response.kind = "objectText"
              => /\ analysisResult' = [image |-> calls[i].file, data |-> "dashboard"]
                 /\ error' = <<>>
                 /\ isLoading' = FALSE]_vars

\* the third attempt succeeded after a rejected fetch and a 500, and the
\* result is on the page
C8_Witness ==
    \E i \in 1..Len(calls) :
        /\ calls[i].pc = "done"
        /\ Len(calls[i].outcomes) = 3
        /\ calls[i].outcomes[1] = Rejected
        /\ calls[i].outcomes[2].status = 500
        /\ calls[i].outcomes[3].kind = "objectText"
        /\ analysisResult = [image |-> calls[i].file, data |-> "dashboard"]
        /\ event.name = "jsonSettled"

\* C9: after an attempt that returned a non-2xx response whose status is
\* neither 429 nor >= 500, the invocation issues no further fetch and performs
\* no backoff wait, and the error it surfaces carries
\* 'APIError: <status> <statusText>'.
C9_ClientErrorNotRetried ==
    \A i \in 1..Len(calls) :
        \A k \in 1..Len(calls[i].outcomes) :
            IsClientError(calls[i].outcomes[k])
              => /\ calls[i].fetches = k
                 /\ Len(calls[i].waits) = k - 1
                 /\ calls[i].pc = "done"
                 /\ calls[i].message = APIErrorMessage(calls[i].outcomes[k])

\* C10: a non-null analysisResult was produced from the image that is
\* currently held in imageFile.
C10_ResultMatchesImage ==
    analysisResult # NullResult => analysisResult.image = imageFile

\* C11: whenever analysisResult is non-null (the results block is rendered),
\* error is the empty string, isLoading is false, and the most recently
\* completed invocation ended with a 2xx response whose candidate text
\* parsed as JSON.
C11_ResultOnlyAfterSuccess ==
    analysisResult # NullResult
      => /\ error = <<>>
         /\ isLoading = FALSE
         /\ \E i \in 1..Len(calls) : calls[i].pc = "done"
         /\ \A i \in 1..Len(calls) :
               calls[i].pc = "done"
                 => /\ calls[i].end = "success"
                    /\ Is2xx(calls[i].response)
                    /\ JSONParses(CandidateText(calls[i].response))

\* a result is on the page, obtained after a retry, and the user has since
\* cancelled a file dialog
C11_Witness ==
    /\ analysisResult # NullResult
    /\ event = [name |-> "handleFileChange", arg |-> Null]
    /\ \E i \in 1..Len(calls) :
          /\ calls[i].pc = "done"
          /\ calls[i].fetches = 2
          /\ analysisResult.image = calls[i].file

\* C12: every started analysis eventually finishes: whenever isLoading is
\* true, and every fetch, timer and FileReader eventually completes (the
\* reader with a data URL or with a null result), isLoading eventually
\* becomes false again and the Analyze button is enabled.
C12_AnalysisEventuallyFinishes ==
    isLoading ~> (~isLoading /\ ~ButtonDisabled)

\* apart from an invocation whose FileReader ended with a null result, every
\* started analysis finishes
C12_FinishesUnlessReadFailed ==
    isLoading ~> ((~isLoading /\ ~ButtonDisabled) \/ \E i \in 1..Len(calls) : calls[i].pc = "hung")

\* C13: every backoff wait of an invocation is followed by another fetch
\* attempt: no wait is performed after the third attempt, and an invocation
\* that has ended performed fewer waits than fetches.
C13_WaitsOnlyBetweenAttempts ==
    \A i \in 1..Len(calls) :
        /\ calls[i].pc = "waiting" => calls[i].fetches < InitialRetries
        /\ calls[i].pc = "done" /\ calls[i].fetches > 0
             => Len(calls[i].waits) < calls[i].fetches

====
